---- MODULE Spec2Model ----
(***************************************************************************)
(* Model of helix-core/src/search.rs: the character motions find_nth_next  *)
(* and find_nth_prev, and the regex Searcher (search_next, search_prev and *)
(* the drivers find and rfind) over a rope of UTF-8 chunks.                *)
(*                                                                         *)
(* A rope is a sequence of chunks, a chunk a non-empty sequence of code    *)
(* points; its bytes are the UTF-8 encoding of the code points.  As in     *)
(* ropey, RopeSlice::slice and chars_at take CHARACTER indices, while      *)
(* chunks()/len_bytes() expose bytes.  A panic of the program is the       *)
(* outcome "Panic".                                                        *)
(***************************************************************************)
EXTENDS Integers, Sequences, FiniteSets, TLC

VARIABLES text, searcher, call, result, prior, new_call, conc, chat,
          driver, scan, stream

\* a driver run on its own, a search call taken one transition at a time,
\* and the response stream of send_chat
stepVars == <<driver, scan, stream>>

\* the state beyond the text, the Searcher and its calls: the call of
\* Searcher::new made in this behaviour, the concurrent callers, the chat,
\* and stepVars
beyondSearch == <<new_call, conc, chat, stepVars>>

vars == <<text, searcher, call, result, prior, beyondSearch>>

----------------------------------------------------------------------------
(* Bounds of the model *)

\* longest enumerated text, in characters
MaxLen == 3
\* most chunks an enumerated text is stored in
MaxChunks == 2
\* largest repetition count n given to the character motions
MaxN == 2
\* width of usize in the model (the program's is 64; TLC integers are 32 bit)
UsizeBits == 16

UsizeMod == 2 ^ UsizeBits

----------------------------------------------------------------------------
(* Text: code points, UTF-8, ropes *)

\* 'a', ' ' and U+00E9 (e acute: a word character of two bytes, C3 A9)
Alphabet == {97, 32, 233}

\* "hello world!" of the tests
HelloWorld == <<104, 101, 108, 108, 111, 32, 119, 111, 114, 108, 100, 33>>

\* UTF-8 encoding of a code point below U+0800
Utf8(cp) ==
    IF cp < 128 THEN <<cp>>
    ELSE <<192 + (cp \div 64), 128 + (cp % 64)>>

IsLeadByte(b) == b >= 192 /\ b <= 223
IsContByte(b) == b >= 128 /\ b <= 191

\* the code point of a two-byte sequence
Decode2(lead, cont) == (lead - 192) * 64 + (cont - 128)

\* Unicode \w restricted to U+0000..U+00FF
IsWordChar(cp) ==
    \/ cp \in 48..57
    \/ cp \in 65..90
    \/ cp = 95
    \/ cp \in 97..122
    \/ cp \in {170, 181, 186}
    \/ cp \in 192..214
    \/ cp \in 216..246
    \/ cp \in 248..255

RECURSIVE Flatten(_)
Flatten(seqs) ==
    IF seqs = <<>> THEN <<>> ELSE Head(seqs) \o Flatten(Tail(seqs))

RECURSIVE EncodeChars(_)
EncodeChars(cs) ==
    IF cs = <<>> THEN <<>> ELSE Utf8(Head(cs)) \o EncodeChars(Tail(cs))

\* the characters of a rope, in document order
Chars(t) == Flatten(t)

len_chars(t) == Len(Chars(t))

\* the byte runs of a rope, one per chunk, in document order
chunks(t) == [k \in 1..Len(t) |-> EncodeChars(t[k])]

Bytes(t) == Flatten(chunks(t))

len_bytes(t) == Len(Bytes(t))

Min(a, b) == IF a < b THEN a ELSE b
Max(a, b) == IF a > b THEN a ELSE b

\* the part of each chunk that lies in characters [a, b), empty parts dropped
RECURSIVE slice_chunks(_, _, _, _)
slice_chunks(chs, base, a, b) ==
    IF chs = <<>> THEN <<>>
    ELSE LET c == Head(chs)
             lo == Max(a - base, 0)
             hi == Min(b - base, Len(c))
             rest == slice_chunks(Tail(chs), base + Len(c), a, b)
         IN  IF lo < hi THEN <<SubSeq(c, lo + 1, hi)>> \o rest ELSE rest

\* RopeSlice::slice(a..b): a view re-based to 0, by character index; it
\* panics when the range is not within 0..=len_chars()
slice(t, a, b) ==
    IF a > b \/ b > len_chars(t)
    THEN [ok |-> FALSE, rope |-> <<>>]
    ELSE [ok |-> TRUE, rope |-> slice_chunks(t, 0, a, b)]

----------------------------------------------------------------------------
(* Outcomes *)

NoneIdx == [some |-> FALSE, val |-> 0]
SomeIdx(v) == [some |-> TRUE, val |-> v]

None == [tag |-> "None", start |-> 0, end |-> 0]
Panic == [tag |-> "Panic", start |-> 0, end |-> 0]
SomeRange(s, e) == [tag |-> "Some", start |-> s, end |-> e]
SomePos(p) == [tag |-> "Some", start |-> p, end |-> p]

----------------------------------------------------------------------------
(* Character motions *)

\* usize subtraction: below zero it panics where overflow checks are on
\* (debug builds) and wraps where they are off (release builds)
usize_sub(a, b) ==
    IF a >= b THEN {SomePos(a - b)}
    ELSE {Panic, SomePos(a - b + UsizeMod)}

\* a scan that starts at pos itself and so counts the character at pos
NextScanStartAtPos(pos) == pos

\* text.chars_at(pos + 1): the forward scan starts right after pos
NextScanStart(pos) == pos + 1

\* the two nested loops of find_nth_next: cursor is the position of the
\* character iterator, pos the running position counter
RECURSIVE nth_next(_, _, _, _, _)
nth_next(cs, ch, cursor, pos, n) ==
    IF n = 0 THEN SomeIdx(pos)
    ELSE IF cursor >= Len(cs) THEN NoneIdx
    ELSE IF cs[cursor + 1] = ch
         THEN nth_next(cs, ch, cursor + 1, pos + 1, n - 1)
         ELSE nth_next(cs, ch, cursor + 1, pos + 1, n)

\* the set of outcomes a build of find_nth_next can produce
find_nth_next(t, ch, pos, n, inclusive) ==
    IF pos >= len_chars(t) THEN {None}
    ELSE LET r == nth_next(Chars(t), ch, NextScanStart(pos), pos, n)
         IN  IF ~r.some THEN {None}
             ELSE IF ~inclusive THEN usize_sub(r.val, 1)
             ELSE {SomePos(r.val)}

\* a running position that is not decremented as the cursor steps back
saturating_sub_skipped(a, b) == a

\* pos.saturating_sub(1)
saturating_sub(a, b) == IF a >= b THEN a - b ELSE 0

\* an adjustment copied from find_nth_next: one before, not one past
PrevExclusiveAdjustBefore(pos) == pos - 1

\* if !inclusive { pos += 1 }
PrevExclusiveAdjust(pos) == pos + 1

\* the two nested loops of find_nth_prev
RECURSIVE nth_prev(_, _, _, _, _)
nth_prev(cs, ch, cursor, pos, n) ==
    IF n = 0 THEN SomeIdx(pos)
    ELSE IF cursor = 0 THEN NoneIdx
    ELSE IF cs[cursor] = ch
         THEN nth_prev(cs, ch, cursor - 1, saturating_sub(pos, 1), n - 1)
         ELSE nth_prev(cs, ch, cursor - 1, saturating_sub(pos, 1), n)

\* the set of outcomes of find_nth_prev; chars_at(pos) panics when pos is
\* beyond len_chars()
find_nth_prev(t, ch, pos, n, inclusive) ==
    IF pos > len_chars(t) THEN {Panic}
    ELSE LET r == nth_prev(Chars(t), ch, pos, pos, n)
         IN  IF ~r.some THEN {None}
             ELSE IF ~inclusive THEN {SomePos(PrevExclusiveAdjust(r.val))}
             ELSE {SomePos(r.val)}

----------------------------------------------------------------------------
(* The compiled automata *)

\* the patterns of the model: one that needs a character, one that matches
\* the empty string
Patterns == {"\\w+", "\\w*"}

\* the literal patterns of the smart-case scenario, and an unbalanced group
LiteralPatterns == {"foo", "Foo"}
MalformedPatterns == {"("}

\* the characters of a pattern string
PatternChars(pattern) ==
    CASE pattern = "\\w+" -> <<92, 119, 43>>
      [] pattern = "\\w*" -> <<92, 119, 42>>
      [] pattern = "foo" -> <<102, 111, 111>>
      [] pattern = "Foo" -> <<70, 111, 111>>
      [] pattern = "(" -> <<40>>
      [] OTHER -> <<>>

\* char::is_uppercase, restricted to U+0000..U+00FF
is_uppercase(cp) == cp \in 65..90 \/ cp \in 192..214 \/ cp \in 216..222

\* simple case folding, restricted to U+0000..U+00FF
Fold(cp) == IF is_uppercase(cp) THEN cp + 32 ELSE cp

\* a Searcher without smart case: never case sensitive
has_uppercase_never(pattern) == FALSE

\* pattern.chars().any(|c| c.is_uppercase())
has_uppercase(pattern) ==
    \E i \in DOMAIN PatternChars(pattern) :
        is_uppercase(PatternChars(pattern)[i])

\* the four automata of a Searcher, each by the options it is built with
Searcher_new(pattern) ==
    LET builder == [pattern |-> pattern,
                    case_insensitive |-> ~has_uppercase(pattern),
                    anchored |-> FALSE, longest_match |-> FALSE,
                    reverse |-> FALSE]
    IN  [left_fdfa |-> [builder EXCEPT !.reverse = TRUE],
         left_rdfa |-> [builder EXCEPT !.anchored = TRUE,
                                       !.longest_match = TRUE],
         right_fdfa |-> builder,
         right_rdfa |-> [builder EXCEPT !.anchored = TRUE,
                                        !.longest_match = TRUE,
                                        !.reverse = TRUE]]

\* An automaton state: q is the state of the pattern over whole characters
\* ("word" is the match state reached), pend the first byte of a two-byte
\* character that is half consumed (0: none), prog the threads of a literal
\* pattern, each the number of its characters matched so far.  A reverse
\* automaton is fed the bytes of a character last first.
DeadState == [q |-> "dead", pend |-> 0, prog |-> {}]

IsLiteral(pattern) == pattern \in LiteralPatterns

\* find and rfind take any `impl DFA`: besides the automata of a Searcher,
\* an automaton given by its table: a start state, match states and a
\* transition per live state and byte class
IsTable(dfa) == "delta" \in DOMAIN dfa

TableState(q) == [q |-> q, pend |-> 0, prog |-> {}]

\* the byte classes of a table
ByteClass(b) == IF b < 128 /\ IsWordChar(b) THEN "w" ELSE "o"

start_state(dfa) ==
    IF IsTable(dfa) THEN TableState(dfa.start)
    ELSE [q |-> "start", pend |-> 0,
          prog |-> IF IsLiteral(dfa.pattern) THEN {0} ELSE {}]

is_dead_state(dfa, s) == s.q = "dead"

\* \w+ matches after a word character; \w* matches from the start on
is_match_state(dfa, s) ==
    IF IsTable(dfa) THEN s.q \in dfa.matches
    ELSE /\ s.pend = 0
         /\ \/ s.q = "word"
            \/ s.q = "start" /\ dfa.pattern = "\\w*"

is_match_or_dead_state(dfa, s) ==
    is_match_state(dfa, s) \/ is_dead_state(dfa, s)

\* the transition over one whole character.  Unanchored \w+ skips the
\* characters before the match (the .*? prefix); once a match state is
\* reached the prefix is dropped (leftmost-first), so a character that is
\* not a word character leads to the dead state.  \w* matches in its start
\* state, so its prefix is dropped from the start.
step_char(dfa, q, cp) ==
    IF q = "dead" THEN "dead"
    ELSE IF IsWordChar(cp) THEN "word"
    ELSE IF q = "start" /\ dfa.pattern = "\\w+" /\ ~dfa.anchored THEN "start"
    ELSE "dead"

Reverse(seq) == [i \in 1..Len(seq) |-> seq[Len(seq) + 1 - i]]

\* the characters of a literal in the order the automaton consumes them
LiteralOf(dfa) ==
    IF dfa.reverse THEN Reverse(PatternChars(dfa.pattern))
    ELSE PatternChars(dfa.pattern)

\* a character of the text against a character of the pattern
CharMatches(dfa, l, cp) ==
    IF dfa.case_insensitive THEN Fold(l) = Fold(cp) ELSE l = cp

\* the threads of prog whose next character is cp, advanced by one
advance(dfa, lit, prog, cp) ==
    {j + 1 : j \in {k \in prog : k < Len(lit)
                                  /\ CharMatches(dfa, lit[k + 1], cp)}}

\* the state after the threads adv advanced: the thread that completes the
\* literal is the oldest, so the match state keeps no thread
\* (leftmost-first); an unanchored automaton that has not matched starts a
\* new thread at every character
after_advance(dfa, len, adv) ==
    IF len \in adv THEN [q |-> "word", pend |-> 0, prog |-> {}]
    ELSE IF ~dfa.anchored THEN [q |-> "start", pend |-> 0,
                                prog |-> adv \cup {0}]
    ELSE IF adv = {} THEN DeadState
    ELSE [q |-> "start", pend |-> 0, prog |-> adv]

\* the transition of a literal pattern over one whole character; the match
\* state leads to the dead state
step_literal(dfa, s, cp) ==
    IF s.q # "start" THEN DeadState
    ELSE after_advance(dfa, Len(PatternChars(dfa.pattern)),
                       advance(dfa, LiteralOf(dfa), s.prog, cp))

\* the transition over one whole character
step(dfa, s, cp) ==
    IF IsLiteral(dfa.pattern) THEN step_literal(dfa, s, cp)
    ELSE [q |-> step_char(dfa, s.q, cp), pend |-> 0, prog |-> {}]

\* byte b completes a character in state s: an ASCII byte, or the second
\* byte fed of a two-byte character
completes_char(dfa, s, b) ==
    IF b < 128 THEN s.pend = 0
    ELSE IF ~dfa.reverse THEN IsContByte(b) /\ IsLeadByte(s.pend)
    ELSE IsLeadByte(b) /\ IsContByte(s.pend)

\* the character that byte b completes
completed_char(dfa, s, b) ==
    IF b < 128 THEN b
    ELSE IF ~dfa.reverse THEN Decode2(s.pend, b)
    ELSE Decode2(b, s.pend)

\* byte b is the first byte fed of a two-byte character
begins_char(dfa, s, b) ==
    /\ b >= 128
    /\ s.pend = 0
    /\ IF ~dfa.reverse THEN IsLeadByte(b) ELSE IsContByte(b)

\* a dead state that is left on the next byte
dead_next_restarts(dfa) == start_state(dfa)

\* the dead state is absorbing
dead_next(dfa) == DeadState

\* dfa.next_state_unchecked(state, b): total over the bytes
next_state(dfa, s, b) ==
    IF s.q = "dead" THEN dead_next(dfa)
    ELSE IF IsTable(dfa) THEN TableState(dfa.delta[s.q][ByteClass(b)])
    ELSE IF completes_char(dfa, s, b)
    THEN step(dfa, s, completed_char(dfa, s, b))
    ELSE IF begins_char(dfa, s, b) THEN [s EXCEPT !.pend = b]
    ELSE DeadState

----------------------------------------------------------------------------
(* The drivers find and rfind *)

\* a mark that names the matching byte, not the boundary after it
FindMarkAtByte(i) == i

\* last_match = Some(i + 1), i the index of the byte within its chunk
FindMark(i) == i + 1

\* last_match = Some(i), i the index of the byte within its chunk
RfindMark(i) == i

\* the inner loop of find over one chunk, from byte i (0-based) on
RECURSIVE find_bytes(_, _, _, _, _)
find_bytes(dfa, chunk, i, state, last_match) ==
    IF i >= Len(chunk)
    THEN [state |-> state, last_match |-> last_match, returned |-> FALSE]
    ELSE LET s2 == next_state(dfa, state, chunk[i + 1])
         IN  IF is_match_or_dead_state(dfa, s2)
             THEN IF is_dead_state(dfa, s2)
                  THEN [state |-> s2, last_match |-> last_match,
                        returned |-> TRUE]
                  ELSE find_bytes(dfa, chunk, i + 1, s2, SomeIdx(FindMark(i)))
             ELSE find_bytes(dfa, chunk, i + 1, s2, last_match)

\* the outer loop of find: for chunk in text.chunks()
RECURSIVE find_chunks(_, _, _, _, _)
find_chunks(dfa, chs, k, state, last_match) ==
    IF k > Len(chs) THEN last_match
    ELSE LET r == find_bytes(dfa, chs[k], 0, state, last_match)
         IN  IF r.returned THEN r.last_match
             ELSE find_chunks(dfa, chs, k + 1, r.state, r.last_match)

\* a driver that starts without a tentative value
initial_match_none(dfa, state, at) == NoneIdx

\* the initial last_match: Some(at) when the start state is a match state
initial_match(dfa, state, at) ==
    IF is_match_state(dfa, state) THEN SomeIdx(at) ELSE NoneIdx

find(t, dfa) ==
    LET state == start_state(dfa)
    IN  IF is_dead_state(dfa, state) THEN NoneIdx
        ELSE find_chunks(dfa, chunks(t), 1, state,
                         initial_match(dfa, state, 0))

\* the inner loop of rfind over one chunk, from byte i (0-based) down
RECURSIVE rfind_bytes(_, _, _, _, _)
rfind_bytes(dfa, chunk, i, state, last_match) ==
    IF i < 0
    THEN [state |-> state, last_match |-> last_match, returned |-> FALSE]
    ELSE LET s2 == next_state(dfa, state, chunk[i + 1])
         IN  IF is_match_or_dead_state(dfa, s2)
             THEN IF is_dead_state(dfa, s2)
                  THEN [state |-> s2, last_match |-> last_match,
                        returned |-> TRUE]
                  ELSE rfind_bytes(dfa, chunk, i - 1, s2,
                                   SomeIdx(RfindMark(i)))
             ELSE rfind_bytes(dfa, chunk, i - 1, s2, last_match)

\* the outer loop of rfind: while let Some(chunk) = chunks.prev()
RECURSIVE rfind_chunks(_, _, _, _, _)
rfind_chunks(dfa, chs, k, state, last_match) ==
    IF k < 1 THEN last_match
    ELSE LET r == rfind_bytes(dfa, chs[k], Len(chs[k]) - 1, state, last_match)
         IN  IF r.returned THEN r.last_match
             ELSE rfind_chunks(dfa, chs, k - 1, r.state, r.last_match)

rfind(t, dfa) ==
    LET state == start_state(dfa)
    IN  IF is_dead_state(dfa, state) THEN NoneIdx
        ELSE rfind_chunks(dfa, chunks(t), Len(chunks(t)), state,
                          initial_match(dfa, state, len_bytes(t)))

----------------------------------------------------------------------------
(* search_prev and search_next *)

search_prev(s, t, offset) ==
    LET dom == slice(t, 0, offset)
    IN  IF ~dom.ok THEN Panic
        ELSE LET start == rfind(dom.rope, s.left_fdfa)
             IN  IF ~start.some THEN None
                 ELSE LET rest == slice(dom.rope, start.val,
                                        len_chars(dom.rope))
                      IN  IF ~rest.ok THEN Panic
                          ELSE LET end == find(rest.rope, s.left_rdfa)
                               IN  IF ~end.some THEN None
                                   ELSE SomeRange(start.val,
                                                  start.val + end.val)

search_next(s, t, offset) ==
    LET dom == slice(t, offset, len_chars(t))
    IN  IF ~dom.ok THEN Panic
        ELSE LET end == find(dom.rope, s.right_fdfa)
             IN  IF ~end.some THEN None
                 ELSE LET head == slice(dom.rope, 0, end.val)
                      IN  IF ~head.ok THEN Panic
                          ELSE LET start == rfind(head.rope, s.right_rdfa)
                               IN  IF ~start.some THEN None
                                   ELSE SomeRange(offset + start.val,
                                                  offset + end.val)

----------------------------------------------------------------------------
(* The state machine: a text snapshot, a Searcher, and the calls made.     *)
(* The operations are pure: a behaviour is one call on the snapshot, and   *)
(* for the searches the calls that iterate from the last result.           *)

\* the ways to store a character sequence in chunks, cut after the
\* positions in cuts
RECURSIVE SplitAt(_, _, _)
SplitAt(cs, from, cuts) ==
    IF cuts = {} THEN <<SubSeq(cs, from, Len(cs))>>
    ELSE LET c == CHOOSE x \in cuts : \A y \in cuts : x <= y
         IN  <<SubSeq(cs, from, c)>> \o SplitAt(cs, c + 1, cuts \ {c})

Ropes(cs) ==
    IF cs = <<>> THEN {<<>>}
    ELSE {SplitAt(cs, 1, cuts) :
            cuts \in {c \in SUBSET (1..(Len(cs) - 1)) :
                        Cardinality(c) < MaxChunks}}

CharSeqs == UNION {[1..n -> Alphabet] : n \in 0..MaxLen}

Texts == UNION {Ropes(cs) : cs \in CharSeqs} \cup {<<HelloWorld>>}

NoCall == [op |-> "none", offset |-> 0, ch |-> 0, pos |-> 0, n |-> 0,
           inclusive |-> FALSE]

SearchCall(op, offset) == [NoCall EXCEPT !.op = op, !.offset = offset]

MotionCall(op, ch, pos, n, inclusive) ==
    [op |-> op, offset |-> 0, ch |-> ch, pos |-> pos, n |-> n,
     inclusive |-> inclusive]

NoPrior == [call |-> NoCall, result |-> None]

\* no concurrent callers
NoCallers == <<>>

\* no chat
NoChat == <<>>

\* no driver run, no stepped call, no response stream
NoDriver == <<>>
NoScan == <<>>
NoStream == <<>>

Unstepped == driver = NoDriver /\ scan = NoScan /\ stream = NoStream

\* Searcher::new has not been called in this behaviour
NotCalled == [called |-> FALSE, pattern |-> "", too_large |-> {},
              tag |-> "None"]

Init ==
    /\ text \in Texts
    /\ searcher \in {Searcher_new(p) : p \in Patterns}
    /\ call = NoCall
    /\ result = None
    /\ prior = NoPrior
    /\ new_call = NotCalled
    /\ conc = NoCallers
    /\ chat = NoChat
    /\ Unstepped

\* searcher.search_next(text, offset)
SearchNext(offset) ==
    /\ call.op = "none"
    /\ call' = SearchCall("search_next", offset)
    /\ result' = search_next(searcher, text, offset)
    /\ prior' = NoPrior
    /\ UNCHANGED <<text, searcher, beyondSearch>>

\* searcher.search_prev(text, offset)
SearchPrev(offset) ==
    /\ call.op = "none"
    /\ call' = SearchCall("search_prev", offset)
    /\ result' = search_prev(searcher, text, offset)
    /\ prior' = NoPrior
    /\ UNCHANGED <<text, searcher, beyondSearch>>

\* searcher.search_next(text, result.end), as the tests iterate
SearchNextFromEnd ==
    /\ call.op = "search_next"
    /\ result.tag = "Some"
    /\ call' = SearchCall("search_next", result.end)
    /\ result' = search_next(searcher, text, result.end)
    /\ prior' = [call |-> call, result |-> result]
    /\ UNCHANGED <<text, searcher, beyondSearch>>

\* searcher.search_prev(text, result.start), as the tests iterate
SearchPrevFromStart ==
    /\ call.op = "search_prev"
    /\ result.tag = "Some"
    /\ call' = SearchCall("search_prev", result.start)
    /\ result' = search_prev(searcher, text, result.start)
    /\ prior' = [call |-> call, result |-> result]
    /\ UNCHANGED <<text, searcher, beyondSearch>>

FindNthNext(ch, pos, n, inclusive) ==
    /\ call.op = "none"
    /\ call' = MotionCall("find_nth_next", ch, pos, n, inclusive)
    /\ result' \in find_nth_next(text, ch, pos, n, inclusive)
    /\ prior' = NoPrior
    /\ UNCHANGED <<text, searcher, beyondSearch>>

FindNthPrev(ch, pos, n, inclusive) ==
    /\ call.op = "none"
    /\ call' = MotionCall("find_nth_prev", ch, pos, n, inclusive)
    /\ result' \in find_nth_prev(text, ch, pos, n, inclusive)
    /\ prior' = NoPrior
    /\ UNCHANGED <<text, searcher, beyondSearch>>

Next ==
    \/ \E offset \in 0..len_bytes(text) : SearchNext(offset)
    \/ \E offset \in 0..len_bytes(text) : SearchPrev(offset)
    \/ SearchNextFromEnd
    \/ SearchPrevFromStart
    \/ \E ch \in Alphabet, pos \in 0..(len_chars(text) + 1), n \in 0..MaxN,
          inclusive \in BOOLEAN : FindNthNext(ch, pos, n, inclusive)
    \/ \E ch \in Alphabet, pos \in 0..(len_chars(text) + 1), n \in 0..MaxN,
          inclusive \in BOOLEAN : FindNthPrev(ch, pos, n, inclusive)

Spec == Init /\ [][Next]_vars

----------------------------------------------------------------------------
(* What the claims speak of: the pattern's matches in the bytes of a text, *)
(* stated without the automata and the drivers.                            *)

PatternOf(srch) == srch.right_fdfa.pattern

IsSearch == call.op \in {"search_next", "search_prev"}

\* the byte length of the word character that starts at byte i (0-based)
\* of B, 0 when none does
WordLenAt(B, i) ==
    IF i >= Len(B) THEN 0
    ELSE IF B[i + 1] < 128 THEN (IF IsWordChar(B[i + 1]) THEN 1 ELSE 0)
    ELSE IF /\ IsLeadByte(B[i + 1])
            /\ i + 1 < Len(B)
            /\ IsContByte(B[i + 2])
            /\ IsWordChar(Decode2(B[i + 1], B[i + 2]))
         THEN 2
    ELSE 0

\* the byte length of the word character that ends at byte e of B
WordLenBefore(B, e) ==
    IF e < 1 THEN 0
    ELSE IF B[e] < 128 THEN (IF IsWordChar(B[e]) THEN 1 ELSE 0)
    ELSE IF /\ e >= 2
            /\ IsContByte(B[e])
            /\ IsLeadByte(B[e - 1])
            /\ IsWordChar(Decode2(B[e - 1], B[e]))
         THEN 2
    ELSE 0

\* the end of the run of word characters that starts at byte i
RECURSIVE RunEnd(_, _)
RunEnd(B, i) ==
    IF WordLenAt(B, i) = 0 THEN i ELSE RunEnd(B, i + WordLenAt(B, i))

\* the start of the run of word characters that ends at byte e
RECURSIVE RunStart(_, _)
RunStart(B, e) ==
    IF WordLenBefore(B, e) = 0 THEN e
    ELSE RunStart(B, e - WordLenBefore(B, e))

\* the first match of the pattern in B[offset..]
FirstMatchFrom(B, pat, offset) ==
    IF pat = "\\w*" THEN SomeRange(offset, RunEnd(B, offset))
    ELSE LET starts == {st \in offset..Len(B) : WordLenAt(B, st) > 0}
         IN  IF starts = {} THEN None
             ELSE LET st == CHOOSE x \in starts : \A y \in starts : x <= y
                  IN  SomeRange(st, RunEnd(B, st))

\* the match of the pattern in B[..offset] nearest to offset
LastMatchBefore(B, pat, offset) ==
    LET D == SubSeq(B, 1, offset)
    IN  IF pat = "\\w*" THEN SomeRange(RunStart(D, offset), offset)
        ELSE LET ends == {e \in 0..offset : WordLenBefore(D, e) > 0}
             IN  IF ends = {} THEN None
                 ELSE LET e == CHOOSE x \in ends : \A y \in ends : x >= y
                      IN  SomeRange(RunStart(D, e), e)

\* the matches of the pattern in B, as an iteration over B reports them:
\* the runs of word characters and, for \w*, the empty matches at the
\* positions no run touches
MatchesIn(B, pat) ==
    LET runs == {SomeRange(st, RunEnd(B, st)) :
                   st \in {x \in 0..Len(B) :
                             WordLenAt(B, x) > 0 /\ WordLenBefore(B, x) = 0}}
        empties == {SomeRange(x, x) :
                      x \in {y \in 0..Len(B) :
                               /\ WordLenAt(B, y) = 0
                               /\ WordLenBefore(B, y) = 0
                               /\ (y < Len(B) => ~IsContByte(B[y + 1]))}}
    IN  IF pat = "\\w*" THEN runs \cup empties ELSE runs

----------------------------------------------------------------------------
(* Claims *)

\* C1: search_next(text, offset) is absent iff text[offset..] holds no
\* match, and is otherwise the byte range of the first match at or after
\* offset.
C1_SearchNextFirstMatch ==
    call.op = "search_next" =>
        result = FirstMatchFrom(Bytes(text), PatternOf(searcher), call.offset)

\* C2: search_prev(text, offset) is absent iff text[..offset] holds no
\* match, and is otherwise the byte range of the match nearest before
\* offset.
C2_SearchPrevNearestMatch ==
    call.op = "search_prev" =>
        result = LastMatchBefore(Bytes(text), PatternOf(searcher), call.offset)

\* C3: forward progress: after search_next returned a range r, the call
\* search_next(text, r.end) is absent or a range that starts at or after
\* r.end.
C3_ForwardProgress ==
    (/\ call.op = "search_next"
     /\ prior.call.op = "search_next"
     /\ prior.result.tag = "Some"
     /\ call.offset = prior.result.end)
    => \/ result.tag = "None"
       \/ result.tag = "Some" /\ result.start >= prior.result.end

\* C4: backward progress: after search_prev returned a range r, the call
\* search_prev(text, r.start) is absent or a range that ends at or before
\* r.start and starts strictly before it.
C4_BackwardProgress ==
    (/\ call.op = "search_prev"
     /\ prior.call.op = "search_prev"
     /\ prior.result.tag = "Some"
     /\ call.offset = prior.result.start)
    => \/ result.tag = "None"
       \/ /\ result.tag = "Some"
          /\ result.end <= prior.result.start
          /\ result.start < prior.result.start

\* C5: every range search_next or search_prev returns satisfies
\* 0 <= start <= end <= len_bytes() of the text passed in.
C5_RangeWithinText ==
    (IsSearch /\ result.tag = "Some") =>
        /\ 0 <= result.start
        /\ result.start <= result.end
        /\ result.end <= len_bytes(text)

\* a search over a text of several chunks with a character of two bytes
\* returned a range that is not empty
C5_Witness ==
    /\ IsSearch
    /\ result.tag = "Some"
    /\ result.start < result.end
    /\ Len(text) > 1
    /\ len_bytes(text) > len_chars(text)

\* C6: search_next and search_prev never fail: every call with an offset in
\* 0..=len_bytes() returns a range or absent, never a panic.
C6_SearchNeverFails ==
    IsSearch => result.tag \in {"Some", "None"}

\* C7: round trip: on a text with exactly one match, search_next(text, 0)
\* and search_prev(text, len_bytes()) return the same range.
C7_RoundTrip ==
    (/\ call = SearchCall("search_next", 0)
     /\ Cardinality(MatchesIn(Bytes(text), PatternOf(searcher))) = 1)
    => result = search_prev(searcher, text, len_bytes(text))

\* C8: on "hello world!" with \w+: search_next at 0, 5, 11 gives 0..5,
\* 6..11, absent; search_prev at 12, 6, 0 gives 6..11, 0..5, absent.
C8_HelloWorld ==
    (text = <<HelloWorld>> /\ PatternOf(searcher) = "\\w+") =>
        /\ call = SearchCall("search_next", 0) => result = SomeRange(0, 5)
        /\ call = SearchCall("search_next", 5) => result = SomeRange(6, 11)
        /\ call = SearchCall("search_next", 11) => result = None
        /\ call = SearchCall("search_prev", 12) => result = SomeRange(6, 11)
        /\ call = SearchCall("search_prev", 6) => result = SomeRange(0, 5)
        /\ call = SearchCall("search_prev", 0) => result = None

\* the second search_next of the test, made from the end of the first
C8_Witness ==
    /\ text = <<HelloWorld>>
    /\ PatternOf(searcher) = "\\w+"
    /\ prior = [call |-> SearchCall("search_next", 0),
                result |-> SomeRange(0, 5)]
    /\ call = SearchCall("search_next", 5)
    /\ result = SomeRange(6, 11)

\* C9: n = 0 is the identity of both character motions: for a valid pos
\* and either value of inclusive the result is Some(pos).
C9_ZeroIsIdentity ==
    (/\ call.op \in {"find_nth_next", "find_nth_prev"}
     /\ call.n = 0
     /\ call.pos < len_chars(text))
    => result = SomePos(call.pos)

\* the occurrences of ch at the character indices after pos
OccurrencesAfter(cs, ch, pos) == {k \in (pos + 1)..(Len(cs) - 1) : cs[k + 1] = ch}

\* what C10 says find_nth_next returns for n >= 1
NthNextExpected(cs, ch, pos, n, inclusive) ==
    LET occ == OccurrencesAfter(cs, ch, pos)
    IN  IF pos >= Len(cs) \/ Cardinality(occ) < n THEN None
        ELSE LET k == CHOOSE x \in occ : Cardinality({j \in occ : j <= x}) = n
             IN  IF inclusive THEN SomePos(k) ELSE SomePos(k - 1)

\* C10: find_nth_next with n >= 1 never counts the character at pos; it is
\* absent if pos >= len_chars() or fewer than n occurrences of ch lie after
\* pos; otherwise it is the index k of the n-th occurrence after pos when
\* inclusive, and k - 1 when not.
C10_FindNthNext ==
    (call.op = "find_nth_next" /\ call.n >= 1) =>
        result = NthNextExpected(Chars(text), call.ch, call.pos, call.n,
                                 call.inclusive)

\* the character at pos is ch itself, and the second occurrence after it is
\* found, not inclusive
C10_Witness ==
    /\ call.op = "find_nth_next"
    /\ call.n = 2
    /\ ~call.inclusive
    /\ call.pos < len_chars(text)
    /\ Chars(text)[call.pos + 1] = call.ch
    /\ result.tag = "Some"

\* the occurrences of ch at the character indices before pos
OccurrencesBefore(cs, ch, pos) == {k \in 0..(pos - 1) : cs[k + 1] = ch}

\* what C11 says find_nth_prev returns for n >= 1
NthPrevExpected(cs, ch, pos, n, inclusive) ==
    LET occ == OccurrencesBefore(cs, ch, pos)
    IN  IF Cardinality(occ) < n THEN None
        ELSE LET k == CHOOSE x \in occ : Cardinality({j \in occ : j >= x}) = n
             IN  IF inclusive THEN SomePos(k) ELSE SomePos(k + 1)

\* C11: find_nth_prev with n >= 1 and 0 <= pos <= len_chars() never counts
\* the character at pos; it is absent if fewer than n occurrences of ch lie
\* before pos; otherwise it is the index k of the n-th occurrence counting
\* backward from pos when inclusive, and k + 1 when not.
C11_FindNthPrev ==
    (/\ call.op = "find_nth_prev"
     /\ call.n >= 1
     /\ call.pos <= len_chars(text))
    => result = NthPrevExpected(Chars(text), call.ch, call.pos, call.n,
                                call.inclusive)

\* the character at pos is ch itself, and the second occurrence before it
\* is found, not inclusive
C11_Witness ==
    /\ call.op = "find_nth_prev"
    /\ call.n = 2
    /\ ~call.inclusive
    /\ call.pos < len_chars(text)
    /\ Chars(text)[call.pos + 1] = call.ch
    /\ result.tag = "Some"

\* two outcomes are present together or absent together
SamePresence(r1, r2) ==
    /\ (r1.tag = "Some") <=> (r2.tag = "Some")
    /\ (r1.tag = "None") <=> (r2.tag = "None")

C13_PrevExclusivePlusOne ==
    (call.op = "find_nth_prev" /\ ~call.inclusive) =>
        \A o \in find_nth_prev(text, call.ch, call.pos, call.n, TRUE) :
            /\ SamePresence(result, o)
            /\ (result.tag = "Some" /\ o.tag = "Some")
                   => result.start = o.start + 1

\* a find_nth_prev that is not inclusive found its occurrence
C13_Witness ==
    /\ call.op = "find_nth_prev"
    /\ ~call.inclusive
    /\ call.n >= 1
    /\ result.tag = "Some"

\* C14: the character motions never fail: for every text, ch, n, inclusive
\* and pos they return absent or a character index in 0..=len_chars(),
\* without underflow and without a cursor outside the text.
C14_MotionsNeverFail ==
    call.op \in {"find_nth_next", "find_nth_prev"} =>
        \/ result.tag = "None"
        \/ /\ result.tag = "Some"
           /\ 0 <= result.start
           /\ result.start <= len_chars(text)

\* the same bytes stored in one chunk
OneChunk(t) == IF Chars(t) = <<>> THEN <<>> ELSE <<Chars(t)>>

\* C20: find is independent of chunking: on the domain of a search_next,
\* find over the chunks returns what find returns over the same bytes in
\* one chunk, for the unanchored and for the anchored forward automaton.
C20_FindIgnoresChunks ==
    call.op = "search_next" =>
        LET dom == slice(text, call.offset, len_chars(text))
        IN  dom.ok =>
                \A dfa \in {searcher.right_fdfa, searcher.left_rdfa} :
                    find(dom.rope, dfa) = find(OneChunk(dom.rope), dfa)

\* ---------------------------------------------------------------------
\* Searcher::new as a call that can fail, and smart case
\* ---------------------------------------------------------------------

\* the names of the four automata, in the order Searcher::new builds them
BuildOrder == <<"left_fdfa", "left_rdfa", "right_fdfa", "right_rdfa">>

RECURSIVE CountOf(_, _)
CountOf(cs, cp) ==
    IF cs = <<>> THEN 0
    ELSE (IF Head(cs) = cp THEN 1 ELSE 0) + CountOf(Tail(cs), cp)

\* the parser rejects a group that is opened and not closed, or closed and
\* not opened
syntax_error(pattern) ==
    CountOf(PatternChars(pattern), 40) # CountOf(PatternChars(pattern), 41)

\* builder.build(pattern) for the automaton called name: an error when the
\* pattern does not parse or the automaton exceeds what the builder can
\* represent (too_large: the automata for which it does)
build_fails(pattern, name, too_large) ==
    syntax_error(pattern) \/ name \in too_large

\* no Searcher: the value of the variable before and after a failed new
NoDfa == [pattern |-> "", case_insensitive |-> FALSE, anchored |-> FALSE,
          longest_match |-> FALSE, reverse |-> FALSE]

NoSearcher == [left_fdfa |-> NoDfa, left_rdfa |-> NoDfa,
               right_fdfa |-> NoDfa, right_rdfa |-> NoDfa]

\* a Searcher::new that keeps whatever was built when a build fails
Searcher_new_partial(pattern, too_large) ==
    IF syntax_error(pattern) THEN [tag |-> "Err", searcher |-> NoSearcher]
    ELSE [tag |-> "Ok", searcher |-> Searcher_new(pattern)]

\* Searcher::new(pattern) with its outcome: every build is followed by `?`,
\* so the first failing build returns the error and drops what was built
Searcher_new_result(pattern, too_large) ==
    IF \E k \in DOMAIN BuildOrder :
           build_fails(pattern, BuildOrder[k], too_large)
    THEN [tag |-> "Err", searcher |-> NoSearcher]
    ELSE [tag |-> "Ok", searcher |-> Searcher_new(pattern)]

\* the texts of the smart-case scenario: f, o, F, O in one chunk
CaseAlphabet == {102, 111, 70, 79}

CaseTexts ==
    UNION {{IF cs = <<>> THEN <<>> ELSE <<cs>> : cs \in [1..n -> CaseAlphabet]} :
             n \in 0..MaxLen}

InitCase ==
    /\ text \in CaseTexts
    /\ searcher = NoSearcher
    /\ call = NoCall
    /\ result = None
    /\ prior = NoPrior
    /\ new_call = NotCalled
    /\ conc = NoCallers
    /\ chat = NoChat
    /\ Unstepped

\* searcher = Searcher::new(pattern)
New(pattern, too_large) ==
    /\ ~new_call.called
    /\ LET r == Searcher_new_result(pattern, too_large)
       IN  /\ new_call' = [called |-> TRUE, pattern |-> pattern,
                           too_large |-> too_large, tag |-> r.tag]
           /\ searcher' = r.searcher
    /\ UNCHANGED <<text, call, result, prior, conc, chat, stepVars>>

NextCase ==
    \/ \E pattern \in LiteralPatterns \cup MalformedPatterns,
          too_large \in SUBSET {BuildOrder[k] : k \in DOMAIN BuildOrder} :
           New(pattern, too_large)
    \/ /\ new_call.tag = "Ok"
       /\ \E offset \in 0..len_bytes(text) : SearchNext(offset)
    \/ /\ new_call.tag = "Ok"
       /\ \E offset \in 0..len_bytes(text) : SearchPrev(offset)

SpecCase == InitCase /\ [][NextCase]_vars

\* the case policy the specification states, read off the pattern
RefCaseSensitive(pattern) ==
    \E i \in DOMAIN PatternChars(pattern) :
        PatternChars(pattern)[i] \in 65..90

\* the literal occurs at byte s (0-based) of B under the policy
RefOccursAt(pattern, B, s) ==
    LET lit == PatternChars(pattern)
    IN  /\ s + Len(lit) <= Len(B)
        /\ \A i \in DOMAIN lit :
               IF RefCaseSensitive(pattern) THEN B[s + i] = lit[i]
               ELSE Fold(B[s + i]) = Fold(lit[i])

\* the first occurrence that starts at or after offset
RefFirstOccurrence(pattern, B, offset) ==
    LET L == Len(PatternChars(pattern))
        S == {s \in offset..Len(B) : RefOccursAt(pattern, B, s)}
    IN  IF S = {} THEN None
        ELSE LET s == CHOOSE x \in S : \A y \in S : x <= y
             IN  SomeRange(s, s + L)

\* the last occurrence that ends at or before offset
RefLastOccurrence(pattern, B, offset) ==
    LET L == Len(PatternChars(pattern))
        S == {s \in 0..offset : s + L <= offset /\ RefOccursAt(pattern, B, s)}
    IN  IF S = {} THEN None
        ELSE LET s == CHOOSE x \in S : \A y \in S : x >= y
             IN  SomeRange(s, s + L)

\* C15: smart case in both directions: a Searcher built from a literal
\* without an uppercase letter finds the occurrences of the literal in any
\* case, one built from a literal with an uppercase letter only those in the
\* exact case, search_next and search_prev alike, and the four automata
\* carry the same case_insensitive flag.
C15_SmartCase ==
    new_call.tag = "Ok" =>
        /\ \A dfa \in {searcher.left_fdfa, searcher.left_rdfa,
                       searcher.right_fdfa, searcher.right_rdfa} :
               dfa.case_insensitive = ~RefCaseSensitive(new_call.pattern)
        /\ call.op = "search_next" =>
               result = RefFirstOccurrence(new_call.pattern, Bytes(text),
                                           call.offset)
        /\ call.op = "search_prev" =>
               result = RefLastOccurrence(new_call.pattern, Bytes(text),
                                          call.offset)

\* "foo" has found "FOO" searching backward
C15_Witness ==
    /\ new_call.tag = "Ok"
    /\ new_call.pattern = "foo"
    /\ Chars(text) = <<70, 79, 79>>
    /\ call.op = "search_prev"
    /\ result = SomeRange(0, 3)

MaxCalls == 2

Callers == {1, 2}

\* the text snapshots of the callers: one chunk, two chunks, a two-byte
\* character
ConcTexts == {<< <<97, 32, 97>> >>, << <<32>>, <<97, 97>> >>,
              << <<233, 32>> >>}

\* a caller: its snapshot, its position in search_next / search_prev, the
\* call, the local of the first scan (end in search_next, start in
\* search_prev), the value returned, the calls made, and whether the other
\* caller was inside a call while this call ran
Caller(t) == [text |-> t, pc |-> "idle", call |-> NoCall, mid |-> NoneIdx,
              result |-> None, calls |-> 0, overlap |-> FALSE]

\* the first slice and scan of a call: search.rs:113-114 and 121-122
first_scan(s, t, c) ==
    LET dom == IF c.op = "search_next" THEN slice(t, c.offset, len_chars(t))
               ELSE slice(t, 0, c.offset)
    IN  IF ~dom.ok THEN [tag |-> "Panic", mid |-> NoneIdx]
        ELSE LET m == IF c.op = "search_next"
                      THEN find(dom.rope, s.right_fdfa)
                      ELSE rfind(dom.rope, s.left_fdfa)
             IN  IF ~m.some THEN [tag |-> "None", mid |-> NoneIdx]
                 ELSE [tag |-> "Some", mid |-> m]

\* the second slice and scan, from the local of the first: search.rs:115-117
\* and 123-125
second_scan(s, t, c, m) ==
    IF c.op = "search_next"
    THEN LET dom == slice(t, c.offset, len_chars(t))
             head == slice(dom.rope, 0, m.val)
         IN  IF ~head.ok THEN Panic
             ELSE LET start == rfind(head.rope, s.right_rdfa)
                  IN  IF ~start.some THEN None
                      ELSE SomeRange(c.offset + start.val, c.offset + m.val)
    ELSE LET dom == slice(t, 0, c.offset)
             rest == slice(dom.rope, m.val, len_chars(dom.rope))
         IN  IF ~rest.ok THEN Panic
             ELSE LET end == find(rest.rope, s.left_rdfa)
                  IN  IF ~end.some THEN None
                      ELSE SomeRange(m.val, m.val + end.val)

\* a first-scan local kept in one place for all callers
LocalOfFirstCaller(c, t) == c[1].mid

\* the local `end` / `start` of the call of caller t
LocalOf(c, t) == c[t].mid

InCall(c, t) == c[t].pc \in {"pass1", "pass2"}

OtherInCall(c, t) == \E u \in Callers \ {t} : InCall(c, u)

InitConc ==
    /\ searcher \in {Searcher_new(p) : p \in Patterns}
    /\ conc \in [Callers -> {Caller(t) : t \in ConcTexts}]
    /\ text = <<>>
    /\ call = NoCall
    /\ result = None
    /\ prior = NoPrior
    /\ new_call = NotCalled
    /\ chat = NoChat
    /\ Unstepped

\* caller t enters search_next / search_prev
Begin(t, op, offset) ==
    /\ conc[t].pc \in {"idle", "done"}
    /\ conc[t].calls < MaxCalls
    /\ conc' = [conc EXCEPT ![t] =
                   [text |-> conc[t].text, pc |-> "pass1",
                    call |-> SearchCall(op, offset), mid |-> NoneIdx,
                    result |-> None, calls |-> conc[t].calls + 1,
                    overlap |-> OtherInCall(conc, t)]]
    /\ UNCHANGED <<text, searcher, call, result, prior, new_call, chat,
                   stepVars>>

\* caller t runs the first slice and scan
FirstScan(t) ==
    /\ conc[t].pc = "pass1"
    /\ LET r == first_scan(searcher, conc[t].text, conc[t].call)
       IN  conc' = [conc EXCEPT
                       ![t].mid = r.mid,
                       ![t].pc = IF r.tag = "Some" THEN "pass2" ELSE "done",
                       ![t].result = IF r.tag = "Panic" THEN Panic ELSE None,
                       ![t].overlap = @ \/ OtherInCall(conc, t)]
    /\ UNCHANGED <<text, searcher, call, result, prior, new_call, chat,
                   stepVars>>

\* caller t runs the second slice and scan and returns
SecondScan(t) ==
    /\ conc[t].pc = "pass2"
    /\ conc' = [conc EXCEPT
                   ![t].result = second_scan(searcher, conc[t].text,
                                             conc[t].call, LocalOf(conc, t)),
                   ![t].pc = "done",
                   ![t].overlap = @ \/ OtherInCall(conc, t)]
    /\ UNCHANGED <<text, searcher, call, result, prior, new_call, chat,
                   stepVars>>

NextConc ==
    \/ \E t \in Callers, op \in {"search_next", "search_prev"} :
           \E offset \in 0..len_bytes(conc[t].text) : Begin(t, op, offset)
    \/ \E t \in Callers : FirstScan(t)
    \/ \E t \in Callers : SecondScan(t)

SpecConc == InitConc /\ [][NextConc]_vars

\* the value of a call run alone
RunAlone(s, t, c) ==
    IF c.op = "search_next" THEN search_next(s, t, c.offset)
    ELSE search_prev(s, t, c.offset)

\* C17: a Searcher is read-only after construction: every step of
\* concurrent callers leaves the four automata unchanged, and every call
\* that has returned has the result it returns when run alone.
C17_SharedSearcherReadOnly ==
    [][/\ searcher' = searcher
       /\ \A t \in Callers :
              conc'[t].pc = "done" =>
                  conc'[t].result
                      = RunAlone(searcher, conc'[t].text, conc'[t].call)]_vars

\* both callers have returned a match from calls that overlapped, on
\* different snapshots with different first-scan locals
C17_Witness ==
    /\ \A t \in Callers :
           /\ conc[t].pc = "done"
           /\ conc[t].overlap
           /\ conc[t].result.tag = "Some"
    /\ conc[1].text # conc[2].text
    /\ conc[1].mid # conc[2].mid

\* ---------------------------------------------------------------------
\* The chat window: helix-term ui/chat.rs, helix-view chat/chat_state.rs
\* ---------------------------------------------------------------------

\* the requests submitted at most, and the chunks a response streams at
\* most
MaxRequests == 2
MaxSend == 2

\* the lines the user types
TypedLines == {"hi", "/clear"}

\* the k-th chunk of a response: plain text, then text that completes a
\* code block, in turn
Chunk(k) == IF k % 2 = 1 THEN "t" ELSE "b"

DocIds == {1, 2}

\* text.starts_with("/")
starts_with_slash(line) == line \in {"/clear", "/x"}

\* a String as the sequence of the pieces it was built from
Content(line) == IF line = "" THEN <<>> ELSE <<line>>

Message(role, line) == [role |-> role, content |-> Content(line)]

\* Option<InProgressState>: None, and Some with the receiver of channel ch
NoProgress == [some |-> FALSE, chan |-> 0, ticks |-> 0]
InProgressState(ch) == [some |-> TRUE, chan |-> ch, ticks |-> 0]

\* ChatState::default()
DefaultState == [history |-> <<>>, context |-> <<>>,
                 in_progress |-> NoProgress]

\* no chat layer in the compositor
NoWindow == [open |-> FALSE, is_quick |-> FALSE, has_state |-> FALSE,
             state |-> DefaultState, line |-> ""]

\* Chat::state: the state of the Chat if it owns one, else the editor's
state(c) == IF c.win.has_state THEN c.win.state ELSE c.ed

\* a Chat::state_mut that always takes the editor's state
state_mut_of_editor(c, st) == [c EXCEPT !.ed = st]

\* Chat::state_mut, as the write of st through the reference it returns
state_mut(c, st) ==
    IF c.win.has_state THEN [c EXCEPT !.win.state = st]
    ELSE [c EXCEPT !.ed = st]

\* the editor before a chat was opened, doc its current document
NewChat(doc) == [doc |-> doc, ed |-> DefaultState, win |-> NoWindow,
                 jobs |-> <<>>, chans |-> <<>>, applied |-> 0,
                 edited |-> FALSE, crashed |-> FALSE]

\* a panic on the main thread: the process ends, and its windows, states
\* and jobs with it
Crash(c) == [NewChat(c.doc) EXCEPT !.crashed = TRUE, !.applied = c.applied,
                                   !.edited = c.edited]

\* the content of the last message with the chunks of q appended
push_all(history, q) ==
    [history EXCEPT ![Len(history)].content = @ \o q]

\* ChatState::fetch_inprogress on the state of the Chat: every chunk in the
\* channel is appended to the last message
fetch_inprogress(c) ==
    IF ~state(c).in_progress.some THEN c
    ELSE IF state(c).history = <<>> THEN Crash(c)
    ELSE state_mut(
             [c EXCEPT !.chans[state(c).in_progress.chan] = <<>>],
             [state(c) EXCEPT
                 !.history = push_all(@, c.chans[state(c).in_progress.chan]),
                 !.in_progress.ticks =
                     @ + Len(c.chans[state(c).in_progress.chan])])

\* the code block regex finds a change in the content
HasCodeBlock(content) == \E i \in DOMAIN content : content[i] = "b"

\* Chat::apply_last_change: the outcomes; the document named by the block
\* is open, and is edited, or it is not
apply_last_change(c) ==
    IF state(c).history = <<>> THEN {Crash(c)}
    ELSE IF ~HasCodeBlock(state(c).history[Len(state(c).history)].content)
    THEN {c}
    ELSE {[c EXCEPT !.edited = TRUE], Crash(c)}

\* chat_window.apply_last_change(editor) in the completion callback;
\* applied counts these calls
apply_on_completion(c) ==
    apply_last_change([c EXCEPT !.applied = @ + 1])

\* the receiver of channel ch is held by a ChatState
receiver_alive(c, ch) ==
    \/ c.ed.in_progress.some /\ c.ed.in_progress.chan = ch
    \/ /\ c.win.has_state
       /\ c.win.state.in_progress.some
       /\ c.win.state.in_progress.chan = ch

\* the job of a request: streaming (sent: the chunks delivered so far),
\* then its completion callback queued, then done
Job(is_quick, ch) == [is_quick |-> is_quick, chan |-> ch, sent |-> 0,
                      phase |-> "stream"]

\* send_chat has returned: the callback of the job is queued
stream_over(c, j) == [c EXCEPT !.jobs[j].phase = "callback",
                               !.jobs[j].sent = 0]

\* the receiver of ip is dropped, and what its channel holds with it
drop_receiver(c, ip) ==
    IF ip.some THEN [c EXCEPT !.chans[ip.chan] = <<>>] ELSE c

\* state.in_progress = None
clear_in_progress(c) ==
    state_mut(drop_receiver(c, state(c).in_progress),
              [state(c) EXCEPT !.in_progress = NoProgress])

\* Chat::submit_text up to format_prompt: the user message is pushed and the
\* channel of the request created
submit_request(c, line) ==
    state_mut([drop_receiver(c, state(c).in_progress)
                   EXCEPT !.chans = Append(@, <<>>)],
              [state(c) EXCEPT
                  !.history = Append(@, Message("user", line)),
                  !.in_progress = InProgressState(Len(c.chans) + 1)])

\* Chat::submit_text after format_prompt returned Ok: the placeholder of
\* the reply is pushed and the job spawned
submit_spawn(c) ==
    state_mut([c EXCEPT !.jobs = Append(@, Job(c.win.is_quick,
                                                Len(c.chans)))],
              [state(c) EXCEPT
                  !.history = Append(@, Message("system", ""))])

\* Context::resolve: the file context supports named files only; document
\* 2 is a scratch buffer
resolves(context) == \A i \in DOMAIN context : context[i] # "document 2"

\* Chat::submit_text on the line taken from the prompt
submit_line(c, line) ==
    IF starts_with_slash(line)
    THEN IF line = "/clear"
         THEN state_mut(c, [state(c) EXCEPT !.history = <<>>])
         ELSE c
    ELSE IF ~resolves(state(c).context) THEN submit_request(c, line)
    ELSE submit_spawn(submit_request(c, line))

\* Chat::submit_text
submit_text(c) == submit_line([c EXCEPT !.win.line = ""], c.win.line)

\* Context::document(doc.id()) and Context::Selection
DocumentContext(doc) == IF doc = 1 THEN "document 1" ELSE "document 2"
SelectionContext == "selection"

\* the context new_global and new_quick push
OpenContext(c) == <<DocumentContext(c.doc), SelectionContext>>

\* Chat::new_global, pushed as the chat layer: the context of its state is
\* cleared and set
new_global(c) ==
    LET w == [c EXCEPT !.win = [NoWindow EXCEPT !.open = TRUE]]
    IN  state_mut(w, [state(w) EXCEPT !.context = OpenContext(c)])

\* Chat::new_quick, pushed as the chat layer: it owns a default state, and
\* the context is pushed on it
new_quick(c) ==
    LET w == [c EXCEPT !.win = [NoWindow EXCEPT !.open = TRUE,
                                                !.is_quick = TRUE,
                                                !.has_state = TRUE]]
    IN  state_mut(w, [state(w) EXCEPT !.context = @ \o OpenContext(c)])

\* a completion callback that clears in_progress before it drains
on_complete_clear_first(c) ==
    LET cleared == clear_in_progress(c)
    IN  IF cleared.win.is_quick THEN apply_on_completion(cleared)
        ELSE {cleared}

\* the completion callback on the chat window it found: the channel is
\* drained, in_progress cleared, and a quick chat applies the change
on_complete(c) ==
    LET drained == fetch_inprogress(c)
        cleared == clear_in_progress(drained)
    IN  IF drained.crashed THEN {drained}
        ELSE IF cleared.win.is_quick THEN apply_on_completion(cleared)
        ELSE {cleared}

\* find_id::<Popup<Chat>>("aichat") for the job of a quick chat,
\* find_id::<Overlay<Chat>>("aichat") for the job of a global chat
find_id(c, is_quick) == c.win.open /\ c.win.is_quick = is_quick

InitChat ==
    /\ chat \in {NewChat(doc) : doc \in DocIds}
    /\ text = <<>>
    /\ searcher = NoSearcher
    /\ call = NoCall
    /\ result = None
    /\ prior = NoPrior
    /\ new_call = NotCalled
    /\ conc = NoCallers
    /\ Unstepped

searchVars == <<text, searcher, call, result, prior, new_call, conc,
                stepVars>>

\* the command that opens the global chat on the current document
OpenGlobal ==
    /\ ~chat.crashed
    /\ ~chat.win.open
    /\ chat' = new_global(chat)
    /\ UNCHANGED searchVars

\* the command that opens a quick chat on the current document
OpenQuick ==
    /\ ~chat.crashed
    /\ ~chat.win.open
    /\ chat' = new_quick(chat)
    /\ UNCHANGED searchVars

\* keys and pastes that edit the prompt: Chat::prompt_handle_event
Type(line) ==
    /\ ~chat.crashed
    /\ chat.win.open
    /\ chat' = IF state(chat).in_progress.some THEN chat
               ELSE [chat EXCEPT !.win.line = line]
    /\ UNCHANGED searchVars

\* key!(Enter): the prompt has no history register, so submit_text runs
Enter ==
    /\ ~chat.crashed
    /\ chat.win.open
    /\ starts_with_slash(chat.win.line) \/ Len(chat.chans) < MaxRequests
    /\ chat' = submit_text(chat)
    /\ UNCHANGED searchVars

\* Component::render
Render ==
    /\ ~chat.crashed
    /\ chat.win.open
    /\ chat' = fetch_inprogress(chat)
    /\ UNCHANGED searchVars

\* ctrl!('y')
CtrlY ==
    /\ ~chat.crashed
    /\ chat.win.open
    /\ chat' \in apply_last_change(chat)
    /\ UNCHANGED searchVars

\* key!(Esc) | ctrl!('c'): the layer is popped and the Chat dropped
Close ==
    /\ ~chat.crashed
    /\ chat.win.open
    /\ chat' = [drop_receiver(chat, chat.win.state.in_progress)
                   EXCEPT !.win = NoWindow]
    /\ UNCHANGED searchVars

\* send_chat delivers a chunk to the callback: it is sent on the channel,
\* or the receiver is gone and send_chat stops
JobSend(j) ==
    /\ ~chat.crashed
    /\ chat.jobs[j].phase = "stream"
    /\ chat.jobs[j].sent < MaxSend
    /\ chat' = IF receiver_alive(chat, chat.jobs[j].chan)
               THEN [chat EXCEPT !.chans[chat.jobs[j].chan] =
                                     Append(@, Chunk(chat.jobs[j].sent + 1)),
                                 !.jobs[j].sent = @ + 1]
               ELSE stream_over(chat, j)
    /\ UNCHANGED searchVars

\* the stream ends: send_chat returns and the job yields its callback
JobEnd(j) ==
    /\ ~chat.crashed
    /\ chat.jobs[j].phase = "stream"
    /\ chat' = stream_over(chat, j)
    /\ UNCHANGED searchVars

\* the completion callback of job j runs on the main thread
Callback(j) ==
    /\ ~chat.crashed
    /\ chat.jobs[j].phase = "callback"
    /\ chat' \in IF find_id(chat, chat.jobs[j].is_quick)
                  THEN on_complete([chat EXCEPT !.jobs[j].phase = "done"])
                  ELSE {[chat EXCEPT !.jobs[j].phase = "done"]}
    /\ UNCHANGED searchVars

NextChat ==
    \/ OpenGlobal
    \/ OpenQuick
    \/ \E line \in TypedLines : Type(line)
    \/ Enter
    \/ Render
    \/ CtrlY
    \/ Close
    \/ \E j \in DOMAIN chat.jobs : JobSend(j)
    \/ \E j \in DOMAIN chat.jobs : JobEnd(j)
    \/ \E j \in DOMAIN chat.jobs : Callback(j)

SpecChat == InitChat /\ [][NextChat]_vars

QuickOpen(c) == c.win.open /\ c.win.is_quick

GlobalOpen(c) == c.win.open /\ ~c.win.is_quick

\* C18: a quick chat has no persistent history: no step taken while a
\* quick Chat is open, its opening and closing included, changes the
\* editor-wide chat state (history, context, in_progress); a quick Chat
\* owns a ChatState and a global Chat owns none, so that all a global Chat
\* reads and writes is the editor-wide state.
C18_QuickChatFrame ==
    [][~chat'.crashed =>
           /\ (QuickOpen(chat) \/ QuickOpen(chat')) => chat'.ed = chat.ed
           /\ QuickOpen(chat') => chat'.win.has_state
           /\ GlobalOpen(chat') =>
                  ~chat'.win.has_state /\ chat'.win.state = DefaultState]_vars

\* a quick chat has received streamed text in its own history while the
\* editor-wide history holds an earlier global conversation
C18_Witness ==
    /\ QuickOpen(chat)
    /\ chat.win.state.history # <<>>
    /\ chat.win.state.history[Len(chat.win.state.history)].content # <<>>
    /\ chat.ed.history # <<>>
    /\ chat.ed.history # chat.win.state.history

\* the step runs the completion callback of job j to its end
StepIsCallback(j) ==
    /\ chat.jobs[j].phase = "callback"
    /\ j \in DOMAIN chat'.jobs
    /\ chat'.jobs[j].phase = "done"

\* what the channel of the state of the Chat holds
Queued(c) ==
    IF state(c).in_progress.some THEN c.chans[state(c).in_progress.chan]
    ELSE <<>>

\* C19: a quick chat directly applies the edit: a completion callback that
\* finds its chat window appends what the channel still holds to the last
\* message, leaves in_progress None and the channel empty, and calls
\* apply_last_change once if the chat is quick and not at all if it is
\* global; apply_last_change is called on completion only in a quick chat,
\* and in a global chat the document is edited only by a step that does
\* nothing else, the ctrl-y key.
C19_QuickChatApplies ==
    [][/\ \A j \in DOMAIN chat.jobs :
              StepIsCallback(j) /\ find_id(chat, chat.jobs[j].is_quick) =>
                  /\ state(chat').history
                         = IF Queued(chat) = <<>> THEN state(chat).history
                           ELSE push_all(state(chat).history, Queued(chat))
                  /\ Queued(chat') = <<>>
                  /\ state(chat').in_progress = NoProgress
                  /\ chat'.applied
                         = chat.applied + (IF chat.win.is_quick THEN 1 ELSE 0)
       /\ chat'.applied # chat.applied =>
              /\ chat'.applied = chat.applied + 1
              /\ QuickOpen(chat)
              /\ chat'.crashed \/ \E j \in DOMAIN chat.jobs : StepIsCallback(j)
       /\ GlobalOpen(chat) /\ chat'.edited # chat.edited =>
              chat' = [chat EXCEPT !.edited = TRUE]]_vars

\* the callback of a quick chat has drained the response, cleared
\* in_progress and applied the code block
C19_Witness ==
    /\ QuickOpen(chat)
    /\ chat.applied = 1
    /\ chat.edited
    /\ chat.jobs[1].phase = "done"
    /\ ~chat.win.state.in_progress.some
    /\ chat.win.state.history[Len(chat.win.state.history)].content
           = <<"t", "b">>

\* ---------------------------------------------------------------------
\* The drivers find and rfind on their own, over any automaton
\* ---------------------------------------------------------------------

\* the live states of a table
TableLive == {"p", "q"}

\* the automata by table: every start st, set of match states and
\* transition function over two live states and two byte classes (a table
\* that starts in q is one that starts in p with the names exchanged)
TableDfas ==
    {[start |-> s, matches |-> m, delta |-> d] :
        s \in {"dead", "p"}, m \in SUBSET TableLive,
        d \in [TableLive -> [{"w", "o"} -> TableLive \cup {"dead"}]]}

\* the domains of the drivers: ASCII texts in every chunking
DriverTexts ==
    UNION {Ropes(cs) : cs \in UNION {[1..n -> {97, 32}] : n \in 0..MaxLen}}

NotRun(dfa) == [dfa |-> dfa, op |-> "none", value |-> NoneIdx]

InitDrivers ==
    /\ text \in DriverTexts
    /\ driver \in {NotRun(dfa) : dfa \in TableDfas}
    /\ searcher = NoSearcher
    /\ call = NoCall
    /\ result = None
    /\ prior = NoPrior
    /\ new_call = NotCalled
    /\ conc = NoCallers
    /\ chat = NoChat
    /\ scan = NoScan
    /\ stream = NoStream

\* self.find(text, dfa)
Find ==
    /\ driver.op = "none"
    /\ driver' = [driver EXCEPT !.op = "find",
                                !.value = find(text, driver.dfa)]
    /\ UNCHANGED <<text, searcher, call, result, prior, new_call, conc,
                   chat, scan, stream>>

\* self.rfind(text, dfa)
Rfind ==
    /\ driver.op = "none"
    /\ driver' = [driver EXCEPT !.op = "rfind",
                                !.value = rfind(text, driver.dfa)]
    /\ UNCHANGED <<text, searcher, call, result, prior, new_call, conc,
                   chat, scan, stream>>

NextDrivers == Find \/ Rfind

SpecDrivers == InitDrivers /\ [][NextDrivers]_vars

\* C21: rfind is independent of chunking: on a text stored in several
\* chunks it returns what it returns on the same bytes in one chunk, the
\* index in the domain of the last byte consumed that put the automaton in
\* a match st.
C21_RfindIgnoresChunks ==
    driver.op = "rfind" =>
        driver.value = rfind(OneChunk(text), driver.dfa)

\* the scan of find over all bytes of a chunk, without the return on the
\* dead st
RECURSIVE find_through_bytes(_, _, _, _, _)
find_through_bytes(dfa, chunk, i, st, last_match) ==
    IF i >= Len(chunk) THEN [state |-> st, last_match |-> last_match]
    ELSE find_through_bytes(
             dfa, chunk, i + 1, next_state(dfa, st, chunk[i + 1]),
             IF is_match_state(dfa, next_state(dfa, st, chunk[i + 1]))
             THEN SomeIdx(FindMark(i)) ELSE last_match)

RECURSIVE find_through_chunks(_, _, _, _, _)
find_through_chunks(dfa, chs, k, st, last_match) ==
    IF k > Len(chs) THEN last_match
    ELSE find_through_chunks(
             dfa, chs, k + 1,
             find_through_bytes(dfa, chs[k], 0, st, last_match).state,
             find_through_bytes(dfa, chs[k], 0, st, last_match).last_match)

\* the scan of rfind over all bytes of a chunk, without the return on the
\* dead st
RECURSIVE rfind_through_bytes(_, _, _, _, _)
rfind_through_bytes(dfa, chunk, i, st, last_match) ==
    IF i < 0 THEN [state |-> st, last_match |-> last_match]
    ELSE rfind_through_bytes(
             dfa, chunk, i - 1, next_state(dfa, st, chunk[i + 1]),
             IF is_match_state(dfa, next_state(dfa, st, chunk[i + 1]))
             THEN SomeIdx(RfindMark(i)) ELSE last_match)

RECURSIVE rfind_through_chunks(_, _, _, _, _)
rfind_through_chunks(dfa, chs, k, st, last_match) ==
    IF k < 1 THEN last_match
    ELSE rfind_through_chunks(
             dfa, chs, k - 1,
             rfind_through_bytes(dfa, chs[k], Len(chs[k]) - 1, st,
                                 last_match).state,
             rfind_through_bytes(dfa, chs[k], Len(chs[k]) - 1, st,
                                 last_match).last_match)

\* the value of a scan that continues to the end of the domain
ScanThrough(op, t, dfa) ==
    IF op = "find"
    THEN find_through_chunks(dfa, chunks(t), 1, start_state(dfa),
                             initial_match(dfa, start_state(dfa), 0))
    ELSE rfind_through_chunks(dfa, chunks(t), Len(chunks(t)),
                              start_state(dfa),
                              initial_match(dfa, start_state(dfa),
                                            len_bytes(t)))

\* the states the automaton is in after each byte of bs, from st on
RECURSIVE Run(_, _, _)
Run(dfa, st, bs) ==
    IF bs = <<>> THEN <<>>
    ELSE <<next_state(dfa, st, Head(bs))>>
             \o Run(dfa, next_state(dfa, st, Head(bs)), Tail(bs))

\* the bytes of t in the order the driver consumes them
Consumed(op, t) == IF op = "find" THEN Bytes(t) ELSE Reverse(Bytes(t))

\* the automaton dies on some byte of the domain
DiesOn(op, t, dfa) ==
    \E i \in DOMAIN Run(dfa, start_state(dfa), Consumed(op, t)) :
        is_dead_state(dfa, Run(dfa, start_state(dfa), Consumed(op, t))[i])

C23_StartState ==
    driver.op \in {"find", "rfind"} =>
        LET start == start_state(driver.dfa)
            at == IF driver.op = "find" THEN 0 ELSE len_bytes(text)
            first == Run(driver.dfa, start, Consumed(driver.op, text))
        IN  IF is_dead_state(driver.dfa, start) THEN driver.value = NoneIdx
            ELSE (len_bytes(text) = 0 \/ is_dead_state(driver.dfa, first[1]))
                     => driver.value = IF is_match_state(driver.dfa, start)
                                       THEN SomeIdx(at) ELSE NoneIdx

\* rfind has returned the length of a domain of two chunks: the start st
\* matches and the first byte consumed is dead
C23_Witness ==
    /\ driver.op = "rfind"
    /\ Len(text) = 2
    /\ driver.value = SomeIdx(len_bytes(text))
    /\ is_match_state(driver.dfa, start_state(driver.dfa))


----------------------------------------------------------------------------
(* The two passes of a search call *)

\* the domain the first pass of the recorded call scans
FirstDomain ==
    IF call.op = "search_next"
    THEN slice(text, call.offset, len_chars(text))
    ELSE slice(text, 0, call.offset)

\* the boundary the first pass of the recorded call returns
FirstPass ==
    IF ~FirstDomain.ok THEN NoneIdx
    ELSE IF call.op = "search_next"
    THEN find(FirstDomain.rope, searcher.right_fdfa)
    ELSE rfind(FirstDomain.rope, searcher.left_fdfa)

\* C24: the second pass never loses a match of the first: when the first
\* pass of search_next (search_prev) returns a boundary, the call returns a
\* range, with offset <= start <= end for search_next and end <= offset for
\* search_prev; it neither returns absent nor fails.
C24_SecondPassKeepsMatch ==
    (IsSearch /\ FirstPass.some) =>
        /\ result.tag = "Some"
        /\ result.start <= result.end
        /\ call.op = "search_next" => call.offset <= result.start
        /\ call.op = "search_prev" => result.end <= call.offset

\* the same, on texts of one chunk of one-byte characters
C24_OnAsciiOneChunk ==
    (Len(text) <= 1 /\ len_bytes(text) = len_chars(text)) =>
        C24_SecondPassKeepsMatch


----------------------------------------------------------------------------
(* search_next and search_prev taken one automaton transition at a time    *)

\* the cursor of a driver loop past its last byte
Exhausted == [k |-> 0, i |-> 0]

\* for chunk in text.chunks() { for (i, &b) in ...enumerate() }: the byte
\* at index i of chunk k, or of the next chunk that has one
RECURSIVE fwd_pos(_, _, _)
fwd_pos(chs, k, i) ==
    IF k > Len(chs) THEN Exhausted
    ELSE IF i < Len(chs[k]) THEN [k |-> k, i |-> i]
    ELSE fwd_pos(chs, k + 1, 0)

\* while let Some(chunk) = chunks.prev() { for (i, &b) in ...rev() }
RECURSIVE bwd_pos(_, _, _)
bwd_pos(chs, k, i) ==
    IF k < 1 THEN Exhausted
    ELSE IF i >= 0 THEN [k |-> k, i |-> i]
    ELSE IF k = 1 THEN Exhausted
    ELSE bwd_pos(chs, k - 1, Len(chs[k - 1]) - 1)

\* a loop whose iterator yields the same byte again
next_index_stays(i) == i

\* the iterator of a chunk's bytes moves to the next index
next_index(i) == i + 1

\* the reversed iterator moves to the previous index
prev_index(i) == i - 1

\* the first byte a pass consumes
first_pos(chs, fwd) ==
    IF fwd THEN fwd_pos(chs, 1, 0)
    ELSE IF Len(chs) = 0 THEN Exhausted
    ELSE bwd_pos(chs, Len(chs), Len(chs[Len(chs)]) - 1)

\* the byte a pass consumes after the one at pos
after_pos(chs, fwd, pos) ==
    IF fwd THEN fwd_pos(chs, pos.k, next_index(pos.i))
    ELSE bwd_pos(chs, pos.k, prev_index(pos.i))

\* no search call made yet
IdleScan ==
    [pc |-> "idle", op |-> "none", offset |-> 0, pass |-> 0, rope |-> <<>>,
     dfa |-> NoDfa, fwd |-> TRUE, st |-> DeadState, last_match |-> NoneIdx,
     pos |-> Exhausted, first |-> NoneIdx, steps |-> 0, seen |-> {},
     result |-> None]

\* find / rfind entered on rope rp with automaton d: the start state and
\* the initial last_match; a dead start state consumes nothing
begin_pass(sc, pass, rp, d, fw) ==
    [sc EXCEPT !.pc = "loop", !.pass = pass, !.rope = rp, !.dfa = d,
               !.fwd = fw, !.st = start_state(d),
               !.last_match =
                   IF is_dead_state(d, start_state(d)) THEN NoneIdx
                   ELSE initial_match(d, start_state(d),
                                      IF fw THEN 0 ELSE len_bytes(rp)),
               !.pos = first_pos(chunks(rp), fw)]

\* the call returns r
returned(sc, r) == [sc EXCEPT !.pc = "done", !.result = r]

\* the domain of the call is cut out and the first pass entered
begin_call(sc, s, t, op, offset) ==
    LET dom == IF op = "search_next" THEN slice(t, offset, len_chars(t))
               ELSE slice(t, 0, offset)
        c0 == [sc EXCEPT !.op = op, !.offset = offset]
    IN  IF ~dom.ok THEN returned(c0, Panic)
        ELSE IF op = "search_next"
        THEN begin_pass(c0, 1, dom.rope, s.right_fdfa, TRUE)
        ELSE begin_pass(c0, 1, dom.rope, s.left_fdfa, FALSE)

\* one iteration of the inner loop: state = next_state_unchecked(state, b)
\* and, in a match state, last_match = Some(i + 1) / Some(i). steps counts
\* the transitions of the call, up to one more than twice the text; seen
\* holds the bytes consumed.
transition(sc, t) ==
    LET b == chunks(sc.rope)[sc.pos.k][sc.pos.i + 1]
        s2 == next_state(sc.dfa, sc.st, b)
    IN  [sc EXCEPT
            !.st = s2,
            !.last_match =
                IF is_match_or_dead_state(sc.dfa, s2)
                   /\ ~is_dead_state(sc.dfa, s2)
                THEN SomeIdx(IF sc.fwd THEN FindMark(sc.pos.i)
                             ELSE RfindMark(sc.pos.i))
                ELSE sc.last_match,
            !.pos = after_pos(chunks(sc.rope), sc.fwd, sc.pos),
            !.steps = Min(sc.steps + 1, 2 * len_bytes(t) + 1),
            !.seen = sc.seen \cup {<<sc.pass, sc.pos.k, sc.pos.i>>}]

\* the first pass returned sc.last_match: `?`, the slice, the second pass
second_pass(sc, s) ==
    LET m == sc.last_match
        dom == IF sc.op = "search_next" THEN slice(sc.rope, 0, m.val)
               ELSE slice(sc.rope, m.val, len_chars(sc.rope))
        c1 == [sc EXCEPT !.first = m]
    IN  IF ~m.some THEN returned(c1, None)
        ELSE IF ~dom.ok THEN returned(c1, Panic)
        ELSE IF sc.op = "search_next"
        THEN begin_pass(c1, 2, dom.rope, s.right_rdfa, FALSE)
        ELSE begin_pass(c1, 2, dom.rope, s.left_rdfa, TRUE)

\* the second pass returned sc.last_match: `?` and the range
call_returns(sc) ==
    IF ~sc.last_match.some THEN returned(sc, None)
    ELSE IF sc.op = "search_next"
    THEN returned(sc, SomeRange(sc.offset + sc.last_match.val,
                                sc.offset + sc.first.val))
    ELSE returned(sc, SomeRange(sc.first.val,
                                sc.first.val + sc.last_match.val))

\* the loop of the running pass has a byte to consume
InLoop(sc) ==
    sc.pc = "loop" /\ ~is_dead_state(sc.dfa, sc.st) /\ sc.pos.k # 0

\* the running pass is over: dead state or no byte left
PassOver(sc) ==
    sc.pc = "loop" /\ (is_dead_state(sc.dfa, sc.st) \/ sc.pos.k = 0)

InitScan ==
    /\ text \in Texts
    /\ searcher \in {Searcher_new(p) : p \in Patterns}
    /\ scan = IdleScan
    /\ call = NoCall
    /\ result = None
    /\ prior = NoPrior
    /\ new_call = NotCalled
    /\ conc = NoCallers
    /\ chat = NoChat
    /\ driver = NoDriver
    /\ stream = NoStream

scanRest ==
    <<text, searcher, call, result, prior, new_call, conc, chat, driver,
      stream>>

\* searcher.search_next(text, offset) / search_prev(text, offset) is called
ScanCall(op, offset) ==
    /\ scan.pc = "idle"
    /\ scan' = begin_call(scan, searcher, text, op, offset)
    /\ UNCHANGED scanRest

\* one automaton transition
Transition ==
    /\ InLoop(scan)
    /\ scan' = transition(scan, text)
    /\ UNCHANGED scanRest

\* find / rfind of the first pass returns
FirstReturn ==
    /\ PassOver(scan)
    /\ scan.pass = 1
    /\ scan' = second_pass(scan, searcher)
    /\ UNCHANGED scanRest

\* find / rfind of the second pass returns, and the call with it
SecondReturn ==
    /\ PassOver(scan)
    /\ scan.pass = 2
    /\ scan' = call_returns(scan)
    /\ UNCHANGED scanRest

NextScan ==
    \/ \E op \in {"search_next", "search_prev"},
          offset \in 0..len_bytes(text) : ScanCall(op, offset)
    \/ Transition
    \/ FirstReturn
    \/ SecondReturn

SpecScan == InitScan /\ [][NextScan]_vars

\* a call is sequential code: a step that can be taken is taken
SpecScanLive ==
    SpecScan /\ WF_vars(Transition) /\ WF_vars(FirstReturn)
             /\ WF_vars(SecondReturn)

\* the call taken in steps returns what the call taken at once returns
ScanIsCall ==
    scan.pc = "done" =>
        scan.result = IF scan.op = "search_next"
                      THEN search_next(searcher, text, scan.offset)
                      ELSE search_prev(searcher, text, scan.offset)

\* a transition consumes a byte not consumed before in the call
NoRescan ==
    [][scan'.steps # scan.steps =>
          <<scan.pass, scan.pos.k, scan.pos.i>> \notin scan.seen]_vars

\* a call makes at most 2 * len_bytes() transitions
TransitionBound == scan.steps <= 2 * len_bytes(text)

\* C25: every search_next and search_prev call terminates: it returns
\* after at most 2 * len_bytes() automaton transitions, and no transition
\* consumes a byte the call has consumed before.
C25_CallTerminates ==
    /\ []TransitionBound
    /\ NoRescan
    /\ (scan.pc = "loop") ~> (scan.pc = "done")

\* a call that ran both passes over the whole three-byte text returned
C25_Witness ==
    /\ scan.pc = "done"
    /\ scan.result.tag = "Some"
    /\ len_bytes(text) = 3
    /\ scan.steps = 2 * len_bytes(text)


----------------------------------------------------------------------------
(* The chat window: requests in progress *)

\* a step of job j that needs no key of the user: the stream ends, or the
\* completion callback runs
JobStep(j) ==
    /\ j \in DOMAIN chat.jobs
    /\ JobEnd(j) \/ Callback(j)

\* the runtime runs every spawned job to its end and the main loop every
\* queued callback; the keys of the user are under no obligation
SpecChatLive ==
    SpecChat /\ \A j \in 1..MaxRequests : WF_vars(JobStep(j))

\* the state of the open quick Chat has a request in progress
QuickInProgress ==
    chat.win.has_state /\ chat.win.state.in_progress.some

\* C26: every submitted chat request eventually leaves the in-progress
\* state: once in_progress is Some, in the editor-wide state or in the
\* state of a quick Chat, it is eventually None again (or the state is
\* gone), whatever the path.
C26_InProgressEnds ==
    /\ chat.ed.in_progress.some ~> ~chat.ed.in_progress.some
    /\ QuickInProgress ~> ~QuickInProgress


\* the step leaves the request of a state in progress, or ends it with
\* the callback of the job that streams on its channel
KeepsRequest(ip, ip2) ==
    ip.some =>
        \/ ip2.some /\ ip2.chan = ip.chan
        \/ /\ ~ip2.some
           /\ \/ chat'.crashed
              \/ ~chat'.win.open
              \/ \E j \in DOMAIN chat.jobs :
                     StepIsCallback(j) /\ chat.jobs[j].chan = ip.chan

\* C27: at most one chat request is in flight per ChatState: while
\* in_progress is Some no step (a key, a paste, Enter) replaces its
\* channel by that of another request, and in_progress is cleared only by
\* the completion callback of the job of that request (or goes with a
\* closed quick Chat).
C27_OneRequestInFlight ==
    [][/\ KeepsRequest(chat.ed.in_progress, chat'.ed.in_progress)
       /\ KeepsRequest(chat.win.state.in_progress,
                       chat'.win.state.in_progress)]_vars


\* the text received for the request of ChatState st: what was appended to
\* the last message, then what its channel holds
Received(st) ==
    (IF st.history = <<>> THEN <<>>
     ELSE st.history[Len(st.history)].content)
        \o chat.chans[st.in_progress.chan]

\* the chunks the callback of send_chat has sent for job j, in order
Sent(j) == [k \in 1..chat.jobs[j].sent |-> Chunk(k)]

\* while job j streams to ChatState st, the text received is the text sent
ReceivedIsSent(st) ==
    \A j \in DOMAIN chat.jobs :
        (/\ st.in_progress.some
         /\ chat.jobs[j].phase = "stream"
         /\ chat.jobs[j].chan = st.in_progress.chan) => Received(st) = Sent(j)

\* a step on a ChatState with a request in progress: the request goes on
\* with the text received kept, or it ends with all of it in the last
\* message, or the state goes with its closed quick Chat
KeepsReceived(st, st2) ==
    st.in_progress.some =>
        \/ chat'.crashed
        \/ st2 = DefaultState /\ ~chat'.win.has_state
        \/ /\ st2.in_progress.some
           /\ st2.in_progress.chan = st.in_progress.chan
           /\ st2.history # <<>>
           /\ st2.history[Len(st2.history)].content
                  \o chat'.chans[st2.in_progress.chan]
                  \in {Received(st)}
                      \cup {Append(Received(st), Chunk(k)) : k \in 1..MaxSend}
        \/ /\ ~st2.in_progress.some
           /\ chat.win.open
           /\ st2.history # <<>>
           /\ st2.history[Len(st2.history)].content = Received(st)

\* C28: streamed text is appended in order and none is lost: while a job
\* streams to a state, the last message followed by what the channel holds
\* is the sequence of chunks sent; every step keeps that text or adds the
\* chunk sent; and when in_progress is cleared, with the chat window open,
\* all of it is in the last message.
C28_StreamInOrder ==
    /\ [](ReceivedIsSent(chat.ed) /\ ReceivedIsSent(chat.win.state))
    /\ [][/\ KeepsReceived(chat.ed, chat'.ed)
          /\ KeepsReceived(chat.win.state, chat'.win.state)]_vars


\* the last message of ChatState st is the placeholder of a reply
EndsWithPlaceholder(st) ==
    /\ st.history # <<>>
    /\ st.history[Len(st.history)].role = "system"

\* C29: in every reachable state of a ChatState, in_progress being Some
\* implies that history is non-empty and that its last message is the
\* placeholder reply of the request.
C29_InProgressHasPlaceholder ==
    /\ chat.ed.in_progress.some => EndsWithPlaceholder(chat.ed)
    /\ chat.win.state.in_progress.some => EndsWithPlaceholder(chat.win.state)

\* in_progress being Some implies that history is non-empty
C29_HistoryNonEmpty ==
    /\ chat.ed.in_progress.some => chat.ed.history # <<>>
    /\ chat.win.state.in_progress.some => chat.win.state.history # <<>>


----------------------------------------------------------------------------
(* ChatClient::send_chat: the lines of the response (client.rs)            *)

\* the lines a response has at most
MaxLines == 4

\* a line of the response: the prefix "data:" or none, the white space
\* after it, and the rest
Line(prefix, space, rest) == [prefix |-> prefix, space |-> space, rest |-> rest]

\* JSON texts: a chunk with the string content c, a chunk with an empty
\* delta, and a text cut short
Json(c) == <<"choices", "delta", "content", c>>
JsonNoContent == <<"choices", "delta">>
JsonCutShort == <<"{">>

\* the line that ends a response
DoneLine == Line("data:", " ", <<"[DONE]">>)

ResponseLines ==
    {DoneLine,
     Line("data:", "", <<"[DONE]">>),
     Line("data:", " ", Json("t")),
     Line("", "", Json("b")),
     Line("", "", <<>>),
     Line("data:", " ", <<>>),
     Line("data:", " ", JsonCutShort),
     Line("data:", " ", JsonNoContent)}

\* lines.next_line() fails: the bytes read are not UTF-8
ReadError == [prefix |-> "", space |-> "", rest |-> <<"invalid utf-8">>]

Responses ==
    UNION {[1..n -> ResponseLines \cup {ReadError}] : n \in 0..MaxLines}

\* a comparison that never finds the line "data: [DONE]"
is_done_never(l) == FALSE

\* line == "data: [DONE]"
is_done(l) == l = DoneLine

\* line.strip_prefix("data:").unwrap_or(&line)
strip_prefix(l) == [l EXCEPT !.prefix = ""]

\* str::trim, on a line whose prefix is stripped; a line that keeps a
\* prefix is not touched
trim(l) == IF l.prefix = "" THEN [l EXCEPT !.space = ""] ELSE l

\* str::is_empty
is_empty(l) == l.prefix = "" /\ l.space = "" /\ l.rest = <<>>

\* serde_json::from_str::<Value>: Ok(value) or Err
from_str(l) ==
    IF l.rest # <<>> /\ l.rest[1] = "choices" /\ l.prefix = "" /\ l.space = ""
    THEN [ok |-> TRUE, value |-> l.rest]
    ELSE [ok |-> FALSE, value |-> <<>>]

\* parsed["choices"].get(0).and_then(|c| c["delta"].get("content")) and
\* content.as_str()
content_str(value) ==
    IF Len(value) = 4 /\ value[3] = "content"
    THEN [some |-> TRUE, str |-> value[4]]
    ELSE [some |-> FALSE, str |-> ""]

\* send_chat has spawned curl and reads its first line
Receiving(ls) ==
    [lines |-> ls, read |-> 0, pc |-> "recv", receiver |-> TRUE,
     invoked |-> <<>>, sent |-> <<>>, refused |-> FALSE]

\* the loop of recv_result is left
over(s) == [s EXCEPT !.pc = "over"]

\* callback(content).await: send.send(text) on the channel; false when
\* the receiver is dropped
callback(s, content) ==
    IF s.receiver
    THEN [s EXCEPT !.invoked = Append(@, content), !.sent = Append(@, content)]
    ELSE over([s EXCEPT !.invoked = Append(@, content), !.refused = TRUE])

\* the body of the loop for a line that is not the line "data: [DONE]"
on_line(s, l) ==
    IF is_empty(trim(strip_prefix(l))) THEN s
    ELSE IF ~from_str(trim(strip_prefix(l))).ok THEN s
    ELSE IF ~content_str(from_str(trim(strip_prefix(l))).value).some THEN s
    ELSE callback(s, content_str(from_str(trim(strip_prefix(l))).value).str)

\* one iteration of while let Some(line) = lines.next_line().await?
recv_line(s) ==
    IF s.read = Len(s.lines) THEN over(s)
    ELSE IF s.lines[s.read + 1] = ReadError THEN over(s)
    ELSE IF is_done(s.lines[s.read + 1])
    THEN over([s EXCEPT !.read = @ + 1])
    ELSE on_line([s EXCEPT !.read = @ + 1], s.lines[s.read + 1])

InitSend ==
    /\ stream \in {Receiving(ls) : ls \in Responses}
    /\ text = <<>>
    /\ searcher = NoSearcher
    /\ call = NoCall
    /\ result = None
    /\ prior = NoPrior
    /\ new_call = NotCalled
    /\ conc = NoCallers
    /\ chat = NoChat
    /\ driver = NoDriver
    /\ scan = NoScan

sendRest ==
    <<text, searcher, call, result, prior, new_call, conc, chat, driver,
      scan>>

\* recv_result reads the next line of the response and handles it
RecvLine ==
    /\ stream.pc = "recv"
    /\ stream' = recv_line(stream)
    /\ UNCHANGED sendRest

\* the ChatState drops the receiver of the channel
DropReceiver ==
    /\ stream.receiver
    /\ stream' = [stream EXCEPT !.receiver = FALSE]
    /\ UNCHANGED sendRest

NextSend == RecvLine \/ DropReceiver

SpecSend == InitSend /\ [][NextSend]_vars

\* the string contents the lines of ls carry, in order
RECURSIVE ContentsOf(_)
ContentsOf(ls) ==
    IF ls = <<>> THEN <<>>
    ELSE (IF ls[1].rest # <<>> /\ ls[1].rest[1] = "choices"
             /\ Len(ls[1].rest) = 4
          THEN <<ls[1].rest[4]>> ELSE <<>>) \o ContentsOf(Tail(ls))

\* the lines of ls before the line "data: [DONE]" and before the read
\* that fails
RECURSIVE BeforeEnd(_)
BeforeEnd(ls) ==
    IF ls = <<>> \/ ls[1] = DoneLine \/ ls[1] = ReadError THEN <<>>
    ELSE <<ls[1]>> \o BeforeEnd(Tail(ls))

IsPrefix(p, q) == Len(p) <= Len(q) /\ SubSeq(q, 1, Len(p)) = p

\* C30: send_chat stops delivering text once the stream is over: no line
\* after "data: [DONE]" and no line after the callback returned false
\* reaches the callback; before that the callback is invoked once for
\* each line read that carries a string content, in the order of the
\* lines; empty lines and lines that are not JSON are skipped and do not
\* stop the stream.
C30_SendChatStops ==
    /\ stream.invoked
           = ContentsOf(SubSeq(stream.lines, 1, stream.read))
    /\ IsPrefix(stream.invoked, ContentsOf(BeforeEnd(stream.lines)))
    /\ stream.pc = "over" /\ ~stream.refused =>
           stream.invoked = ContentsOf(BeforeEnd(stream.lines))
    /\ stream.refused =>
           /\ stream.pc = "over"
           /\ stream.invoked = Append(stream.sent, stream.invoked[Len(stream.invoked)])
    /\ ~stream.refused => stream.sent = stream.invoked

\* a response of a cut-short line, a chunk, the line "data: [DONE]" and
\* another chunk has been received: one call of the callback
C30_Witness ==
    /\ stream.pc = "over"
    /\ stream.lines = <<Line("data:", " ", JsonCutShort),
                        Line("data:", " ", Json("t")), DoneLine,
                        Line("", "", Json("b"))>>
    /\ stream.invoked = <<"t">>
    /\ stream.receiver

====
